---- MODULE Spec2Model ----
(***************************************************************************)
(* Model of the enqueuer service (src/app.py): the ConfigManager cache     *)
(* (TTL refresh from the remote bucket, local services.json fallback) and  *)
(* the two HTTP endpoints POST /enqueue and POST /config/refresh, run by   *)
(* concurrent request threads that share the one global config_manager.    *)
(*                                                                         *)
(* Time is counted in seconds since datetime.min, so datetime.min is 0.    *)
(* A document is a sequence of JSON tokens; json_loads parses it.          *)
(* A step of a thread contains one access to the shared fields _config and *)
(* _last_loaded or to a collaborator (the bucket, the local file, the      *)
(* backend); a read of the clock is taken together with the access that    *)
(* follows it on the same or the next line (lines 34-35, 49, 63).          *)
(* The remote document may be any JSON text: an object (a routing table),  *)
(* an array, or text json.loads rejects.  Routing entries are well formed. *)
(***************************************************************************)
EXTENDS Integers, Sequences, FiniteSets, TLC

(* ---------------------------- bounds ----------------------------------- *)
(* The number of TTL periods the clock runs through.                       *)
MaxPeriods == 1

(* The request threads of the server's thread pool.                        *)
Threads == {1, 2}

(* ---------------------- program constants ------------------------------ *)
datetime_min == 0
cache_ttl == 300
DEFAULT_DEADLINE == 900
DEADLINE_GE == 1
DEADLINE_LE == 3600

(* The wall clock at process start, any instant long after datetime.min.   *)
StartNow == 1000
(* The instants at which the clock is read: one second before, at and one  *)
(* second after each multiple of the TTL since process start.              *)
Instants ==
    {StartNow + (k * cache_ttl) + j : k \in 0..MaxPeriods, j \in {0, 1}}
      \cup {StartNow + (k * cache_ttl) - 1 : k \in 1..MaxPeriods}
(* The instants of Spec and SpecReq: one per period, each more than a TTL  *)
(* after the one before.                                                   *)
ConcInstants == {StartNow + (k * (cache_ttl + 1)) : k \in 0..MaxPeriods}

(* ---------------------- routing entries -------------------------------- *)
(* cfg dicts of services.json; "deadline_s" is an optional key.            *)
EntryOf(tok) ==
    CASE tok = "eA" -> [queue |-> "q-a", url |-> "https://a/run", aud |-> "aud-a",
                        deadline_s |-> 600]
      [] tok = "eB" -> [queue |-> "q-b", url |-> "https://b/run", aud |-> "aud-b"]
      [] tok = "eC" -> [queue |-> "q-c", url |-> "https://c/run", aud |-> "aud-c",
                        deadline_s |-> 45]
EntryTokens == {"eA", "eB", "eC"}

(* ---------------------- JSON documents --------------------------------- *)
DocA     == <<"{", "brain", "eA", "worker", "eB", "}">>
DocB     == <<"{", "worker", "eA", "}">>
DocTrunc == <<"{", "brain">>
DocList  == <<"[", "worker", "]">>
DocEmptyList == <<"[", "]">>
DocLocal == <<"{", "brain", "eC", "}">>
NoText   == <<>>

(* Python values json.loads can return here: a dict or a list.             *)
EmptyDict == [k \in {} |-> EntryOf("eA")]
PyDict(f) == [kind |-> "dict", d |-> f, l |-> <<>>]
PyList(s) == [kind |-> "list", d |-> EmptyDict, l |-> s]

(* bool(value): an empty dict or list is falsy.                            *)
Truthy(v) == IF v.kind = "dict" THEN DOMAIN v.d # {} ELSE Len(v.l) > 0
(* name in value                                                           *)
Contains(v, name) ==
    IF v.kind = "dict" THEN name \in DOMAIN v.d
    ELSE \E i \in 1..Len(v.l) : v.l[i] = name
(* value.keys() exists only on a dict (AttributeError otherwise).          *)
HasKeys(v) == v.kind = "dict"
Keys(v) == DOMAIN v.d

IsObjectText(t) ==
    /\ Len(t) >= 2
    /\ t[1] = "{"
    /\ t[Len(t)] = "}"
    /\ (Len(t) - 2) % 2 = 0
    /\ \A i \in 1..((Len(t) - 2) \div 2) : t[2 * i + 1] \in EntryTokens

IsArrayText(t) ==
    /\ Len(t) >= 2
    /\ t[1] = "["
    /\ t[Len(t)] = "]"

(* The last pair of an object text with key k wins, as in json.loads.      *)
LastIndexOf(t, k) ==
    CHOOSE i \in 1..((Len(t) - 2) \div 2) :
        /\ t[2 * i] = k
        /\ \A j \in 1..((Len(t) - 2) \div 2) : t[2 * j] = k => j <= i

ObjectOf(t) ==
    [k \in {t[2 * i] : i \in 1..((Len(t) - 2) \div 2)} |->
        EntryOf(t[2 * LastIndexOf(t, k) + 1])]

json_loads(t) ==
    IF IsObjectText(t) THEN [ok |-> TRUE, val |-> PyDict(ObjectOf(t))]
    ELSE IF IsArrayText(t)
         THEN [ok |-> TRUE, val |-> PyList(SubSeq(t, 2, Len(t) - 1))]
         ELSE [ok |-> FALSE, val |-> PyDict(EmptyDict)]

(* ---------------------- environment ------------------------------------ *)
Unreachable == <<"unreachable">>
RemoteStates == {Unreachable, DocA, DocB, DocTrunc, DocList, DocEmptyList}
LocalStates == {Unreachable, DocLocal, DocTrunc}
(* The states of the two sources in Spec and SpecReq.                      *)
ConcRemote == {Unreachable, DocA, DocB}
ConcLocal == {Unreachable, DocLocal}

VARIABLES
    now,          \* the wall clock (datetime.utcnow / time.time)
    remote,       \* what blob.download_as_text() yields now
    local_file,   \* what open("services.json") yields
    config,       \* config_manager._config
    last_loaded,  \* config_manager._last_loaded
    pc,           \* position of each request thread
    phase,        \* which caller runs the cache code in that thread
    req,          \* the request the thread serves
    json_content, \* local of _load_from_gcs
    services,     \* local: the value get_services returned
    task,         \* local of enqueue: the task dict
    sub,          \* the create_task call of the request and its outcome
    resp,         \* the HTTP response of the request
    cfg,          \* local of enqueue: the resolved routing entry
    attempts,     \* remote fetches made for the request, per caller
    age,          \* now - _last_loaded as the running get_services saw it
    held,         \* _config, _last_loaded when the running load began
    failed,       \* which line of the running _load_from_gcs raised, if any
    newest        \* the text downloaded last by the loads now running

vars == <<now, remote, local_file, config, last_loaded, pc, phase, req,
          json_content, services, task, cfg, sub, resp, attempts, age, held,
          failed, newest>>

(* ---------------------- requests and responses ------------------------- *)
(* An Optional field is a set with at most one element; {} is None.        *)
None == {}
Requests ==
    [service : {"brain", "worker"},
     payload : {<<"{", "}">>},
     idempotency_key : {None, {""}, {"k1"}},
     delay_s : {None, {0}, {30}},
     deadline_s : {None, {0}, {1}, {3600}, {3601}}]
(* Requests that differ in the service name only.                          *)
CoreRequests ==
    [service : {"brain", "ghost"},
     payload : {<<"{", "}">>},
     idempotency_key : {{"k1"}},
     delay_s : {None},
     deadline_s : {None}]
UUIDs == {"u1", "u2"}
TaskNames == {"tasks/1", "tasks/2"}
BackendErrors == {"DEADLINE_EXCEEDED", "PERMISSION_DENIED"}

NoReq == [kind |-> "none"]
NoTask == [kind |-> "none"]
NoSub == [called |-> 0]
NoResp == [status |-> 0]
NoValue == PyDict(EmptyDict)
NoCfg == [kind |-> "none"]
NoAge == -1
NoAttempts == [validate |-> 0, handle |-> 0, refresh |-> 0]
NoHeld == [config |-> NoValue, last_loaded |-> datetime_min]

(* str(n) of a non-negative integer: its decimal digits.                   *)
DigitChar == <<"0", "1", "2", "3", "4", "5", "6", "7", "8", "9">>
RECURSIVE DecStr(_)
DecStr(n) ==
    IF n < 10 THEN <<DigitChar[n + 1]>>
    ELSE Append(DecStr(n \div 10), DigitChar[(n % 10) + 1])

(* Field(ge=..., le=...) of EnqueueRequest                                 *)
FieldsValid(r) ==
    /\ \A x \in r.delay_s : x >= 0
    /\ \A x \in r.deadline_s : x >= DEADLINE_GE /\ x <= DEADLINE_LE

(* a or b on an Optional[int] a: None and 0 are falsy                      *)
OrElse(a, b) == IF a # None /\ a # {0} THEN CHOOSE x \in a : TRUE ELSE b

(* cfg.get("deadline_s", 900)                                              *)
cfg_get_deadline(c) ==
    IF "deadline_s" \in DOMAIN c THEN c.deadline_s ELSE DEFAULT_DEADLINE

(* Variant: the entry's deadline takes precedence over the request's.      *)
effective_deadline_entry_first(r, c) ==
    IF "deadline_s" \in DOMAIN c THEN c.deadline_s
    ELSE OrElse(r.deadline_s, DEFAULT_DEADLINE)

(* deadline_s = req.deadline_s or cfg.get("deadline_s", 900)               *)
effective_deadline(r, c) == OrElse(r.deadline_s, cfg_get_deadline(c))

(* idem = req.idempotency_key or str(uuid.uuid4())                         *)
effective_idem(r, u) ==
    IF r.idempotency_key # None /\ r.idempotency_key # {""}
    THEN CHOOSE k \in r.idempotency_key : TRUE
    ELSE u

(* if req.delay_s and req.delay_s > 0: schedule_time = time.time() + delay *)
schedule_time(r, t) ==
    IF r.delay_s # None /\ r.delay_s # {0} /\ (\A x \in r.delay_s : x > 0)
    THEN {t + (CHOOSE x \in r.delay_s : TRUE)}
    ELSE None

(* The task dict enqueue builds from the request and the resolved entry.   *)
build_task(r, c, u, t) ==
    [kind |-> "task",
     parent |-> c.queue,
     http_method |-> "POST",
     url |-> c.url,
     content_type |-> "application/json",
     x_idempotency_key |-> effective_idem(r, u),
     body |-> r.payload,
     audience |-> c.aud,
     schedule_time |-> schedule_time(r, t),
     dispatch_deadline |-> Append(DecStr(effective_deadline(r, c)), "s")]

(* Variant: the success body names the service where the task identifier  *)
(* belongs.                                                                *)
Resp200Enqueue_service_as_task(name, service, ver) ==
    [status |-> 200, ok |-> TRUE, task |-> service, service |-> service,
     from_config_ver |-> DecStr(ver)]

(* lines 124-129: the body returned after a successful create_task         *)
Resp200Enqueue(name, service, ver) ==
    [status |-> 200, ok |-> TRUE, task |-> name, service |-> service,
     from_config_ver |-> DecStr(ver)]
Resp200Refresh(v) == [status |-> 200, ok |-> TRUE, services |-> Keys(v)]
Resp422 == [status |-> 422, detail |-> "validation error"]
Resp500HTTPException == [status |-> 500, detail |-> "Error en Cloud Tasks"]
Resp500Unhandled == [status |-> 500, detail |-> "Internal Server Error"]

(* ---------------------- initial state ---------------------------------- *)
Init ==
    /\ now = StartNow
    /\ remote \in ConcRemote
    /\ local_file \in ConcLocal
    /\ config = PyDict(EmptyDict)
    /\ last_loaded = datetime_min
    /\ pc = [p \in Threads |-> "idle"]
    /\ phase = [p \in Threads |-> "none"]
    /\ req = [p \in Threads |-> NoReq]
    /\ json_content = [p \in Threads |-> NoText]
    /\ services = [p \in Threads |-> NoValue]
    /\ task = [p \in Threads |-> NoTask]
    /\ sub = [p \in Threads |-> NoSub]
    /\ resp = [p \in Threads |-> NoResp]
    /\ cfg = [p \in Threads |-> NoCfg]
    /\ attempts = [p \in Threads |-> NoAttempts]
    /\ age = [p \in Threads |-> NoAge]
    /\ held = [p \in Threads |-> NoHeld]
    /\ newest = NoText
    /\ failed = [p \in Threads |-> "none"]

(* ---------------------- the environment -------------------------------- *)
Advance(t) ==
    /\ t > now
    /\ now' = t
    /\ UNCHANGED <<newest, remote, local_file, config, last_loaded, pc, phase, req,
                   json_content, services, task, cfg, sub, resp, attempts,
                   age, held, failed>>

RemoteChange(r) ==
    /\ r # remote
    /\ remote' = r
    /\ UNCHANGED <<newest, now, local_file, config, last_loaded, pc, phase, req,
                   json_content, services, task, cfg, sub, resp, attempts,
                   age, held, failed>>

(* ---------------------- ConfigManager ---------------------------------- *)
(* Variant: the comparison written with >= instead of >.                   *)
Expired_inclusive(t, loaded) == t - loaded >= cache_ttl

(* Variant: the operands of the subtraction exchanged.                     *)
Expired_reversed(t, loaded) == loaded - t > cache_ttl

(* now - self._last_loaded > self._cache_ttl                               *)
Expired(t, loaded) == t - loaded > cache_ttl

(* Where control goes when _load_from_gcs returns to its caller.           *)
LoadDone(p) == IF phase[p] = "refresh" THEN "rc_respond" ELSE "gs_return"

(* Variant: a load that raised is started again.                           *)
load_except_retry(p) == "lg_fetch"

(* except Exception of _load_from_gcs: control enters the handler.         *)
load_except(p) == "lg_except"

(* Variant: _load_local_fallback without its except clause.               *)
fallback_except_propagates(p) == "gs_raised"

(* except Exception of _load_local_fallback: the error is printed and the  *)
(* method returns.                                                         *)
fallback_except(p) == LoadDone(p)

(* get_services, lines 34-35: read the clock, compare with _last_loaded.   *)
gs_check(p) ==
    /\ pc[p] = "gs_check"
    /\ pc' = [pc EXCEPT ![p] = IF Expired(now, last_loaded)
                               THEN "lg_fetch" ELSE "gs_return"]
    /\ age' = [age EXCEPT ![p] = now - last_loaded]
    /\ UNCHANGED <<newest, now, remote, local_file, config, last_loaded, phase, req,
                   json_content, services, task, cfg, sub, resp, attempts,
                   held, failed>>

(* Another thread holds a downloaded text it has not assigned yet.         *)
Pending(p) == \E q \in Threads \ {p} : json_content[q] # NoText

(* _load_from_gcs, lines 42-46: blob.download_as_text()                    *)
lg_fetch(p) ==
    /\ pc[p] = "lg_fetch"
    /\ attempts' = [attempts EXCEPT ![p][phase[p]] = @ + 1]
    /\ held' = [held EXCEPT ![p] = [config |-> config, last_loaded |-> last_loaded]]
    /\ IF remote = Unreachable
       THEN /\ pc' = [pc EXCEPT ![p] = load_except(p)]
            /\ failed' = [failed EXCEPT ![p] = "fetch"]
            /\ UNCHANGED <<json_content, newest>>
       ELSE /\ pc' = [pc EXCEPT ![p] = "lg_assign"]
            /\ failed' = [failed EXCEPT ![p] = "no"]
            /\ json_content' = [json_content EXCEPT ![p] = remote]
            /\ newest' = remote
    /\ UNCHANGED <<now, remote, local_file, config, last_loaded, phase, req,
                   services, task, cfg, sub, resp, age>>

(* Variants: the value loaded is merged into a table held, as dict.update  *)
(* would; a table already held is kept and the value loaded dropped.      *)
assign_config_update(old, new) ==
    IF old.kind = "dict" /\ new.kind = "dict"
    THEN PyDict([k \in DOMAIN old.d \cup DOMAIN new.d |->
                   IF k \in DOMAIN new.d THEN new.d[k] ELSE old.d[k]])
    ELSE new
assign_config_keep_first(old, new) == IF Truthy(old) THEN old ELSE new

(* self._config = <value loaded>, lines 47 and 61: the name is rebound to  *)
(* the value loaded, whatever it held.                                     *)
assign_config(old, new) == new

(* line 47: self._config = json.loads(json_content)                        *)
lg_assign(p) ==
    /\ pc[p] = "lg_assign"
    /\ json_content' = [json_content EXCEPT ![p] = NoText]
    /\ IF json_loads(json_content[p]).ok
       THEN /\ config' = assign_config(config, json_loads(json_content[p]).val)
            /\ pc' = [pc EXCEPT ![p] = "lg_stamp"]
            /\ UNCHANGED <<failed, newest>>
       ELSE /\ pc' = [pc EXCEPT ![p] = load_except(p)]
            /\ failed' = [failed EXCEPT ![p] = "decode"]
            /\ newest' = IF Pending(p) THEN newest ELSE NoText
            /\ UNCHANGED config
    /\ UNCHANGED <<now, remote, local_file, last_loaded, phase, req,
                   services, task, cfg, sub, resp, attempts, age, held>>

(* line 49: self._last_loaded = datetime.utcnow()                          *)
lg_stamp(p) ==
    /\ pc[p] = "lg_stamp"
    /\ last_loaded' = now
    /\ pc' = [pc EXCEPT ![p] = "lg_print"]
    /\ newest' = IF Pending(p) THEN newest ELSE NoText
    /\ UNCHANGED <<now, remote, local_file, config, phase, req, json_content,
                   services, task, cfg, sub, resp, attempts, age, held,
                   failed>>

(* line 50: print(... list(self._config.keys()))                           *)
lg_print(p) ==
    /\ pc[p] = "lg_print"
    /\ IF HasKeys(config)
       THEN /\ pc' = [pc EXCEPT ![p] = LoadDone(p)]
            /\ UNCHANGED failed
       ELSE /\ pc' = [pc EXCEPT ![p] = load_except(p)]
            /\ failed' = [failed EXCEPT ![p] = "keys"]
    /\ UNCHANGED <<newest, now, remote, local_file, config, last_loaded, phase, req,
                   json_content, services, task, cfg, sub, resp, attempts,
                   age, held>>

(* lines 51-56: except Exception: if not self._config: fallback            *)
lg_except(p) ==
    /\ pc[p] = "lg_except"
    /\ pc' = [pc EXCEPT ![p] = IF ~Truthy(config) THEN "fb_load" ELSE LoadDone(p)]
    /\ UNCHANGED <<newest, now, remote, local_file, config, last_loaded, phase, req,
                   json_content, services, task, cfg, sub, resp, attempts,
                   age, held, failed>>

(* _load_local_fallback, lines 60-62: self._config = json.load(f)          *)
fb_load(p) ==
    /\ pc[p] = "fb_load"
    /\ IF local_file # Unreachable /\ json_loads(local_file).ok
       THEN /\ config' = assign_config(config, json_loads(local_file).val)
            /\ pc' = [pc EXCEPT ![p] = "fb_stamp"]
       ELSE /\ pc' = [pc EXCEPT ![p] = fallback_except(p)]
            /\ UNCHANGED config
    /\ UNCHANGED <<newest, now, remote, local_file, last_loaded, phase, req,
                   json_content, services, task, cfg, sub, resp, attempts,
                   age, held, failed>>

(* line 63: self._last_loaded = datetime.utcnow()                          *)
fb_stamp(p) ==
    /\ pc[p] = "fb_stamp"
    /\ last_loaded' = now
    /\ pc' = [pc EXCEPT ![p] = LoadDone(p)]
    /\ UNCHANGED <<newest, now, remote, local_file, config, phase, req, json_content,
                   services, task, cfg, sub, resp, attempts, age, held,
                   failed>>

(* get_services, line 38: return self._config                              *)
gs_return(p) ==
    /\ pc[p] = "gs_return"
    /\ services' = [services EXCEPT ![p] = config]
    /\ pc' = [pc EXCEPT ![p] = IF phase[p] = "validate" THEN "v_in" ELSE "h_lookup"]
    /\ age' = [age EXCEPT ![p] = NoAge]
    /\ held' = [held EXCEPT ![p] = NoHeld]
    /\ failed' = [failed EXCEPT ![p] = "none"]
    /\ UNCHANGED <<newest, now, remote, local_file, config, last_loaded, phase, req,
                   json_content, task, cfg, sub, resp, attempts>>

(* ---------------------- POST /enqueue ---------------------------------- *)
(* A request arrives; pydantic runs the validator of field service first.  *)
StartEnqueue(p, r) ==
    /\ pc[p] = "idle"
    /\ pc' = [pc EXCEPT ![p] = "gs_check"]
    /\ phase' = [phase EXCEPT ![p] = "validate"]
    /\ req' = [req EXCEPT ![p] = r]
    /\ UNCHANGED <<newest, now, remote, local_file, config, last_loaded,
                   json_content, services, task, cfg, sub, resp, attempts,
                   age, held, failed>>

(* service_must_exist, line 84: v in current_services                      *)
validator_accepts(v, name) == Contains(v, name)

(* service_must_exist, lines 84-86, then the Field constraints: the        *)
(* ValueError and the constraint errors become a 422; the AttributeError   *)
(* of current_services.keys() on a value that is no dict is not caught.    *)
v_in(p) ==
    /\ pc[p] = "v_in"
    /\ services' = [services EXCEPT ![p] = NoValue]
    /\ IF validator_accepts(services[p], req[p].service)
       THEN IF FieldsValid(req[p])
            THEN /\ pc' = [pc EXCEPT ![p] = "gs_check"]
                 /\ phase' = [phase EXCEPT ![p] = "handle"]
                 /\ UNCHANGED resp
            ELSE /\ pc' = [pc EXCEPT ![p] = "done"]
                 /\ resp' = [resp EXCEPT ![p] = Resp422]
                 /\ UNCHANGED phase
       ELSE /\ pc' = [pc EXCEPT ![p] = "done"]
            /\ resp' = [resp EXCEPT ![p] =
                          IF HasKeys(services[p]) THEN Resp422 ELSE Resp500Unhandled]
            /\ UNCHANGED phase
    /\ UNCHANGED <<newest, now, remote, local_file, config, last_loaded, req,
                   json_content, task, cfg, sub, attempts, age, held, failed>>

(* enqueue, lines 92-120: cfg = services[req.service] and the task dict;   *)
(* a KeyError or TypeError of the lookup is not caught.                    *)
h_lookup(p) ==
    /\ pc[p] = "h_lookup"
    /\ services' = [services EXCEPT ![p] = NoValue]
    /\ IF HasKeys(services[p]) /\ req[p].service \in Keys(services[p])
       THEN /\ cfg' = [cfg EXCEPT ![p] = services[p].d[req[p].service]]
            /\ \E u \in UUIDs :
                 /\ (effective_idem(req[p], u) # u => u = CHOOSE x \in UUIDs : TRUE)
                 /\ task' = [task EXCEPT ![p] = build_task(req[p], cfg'[p], u, now)]
            /\ pc' = [pc EXCEPT ![p] = "create_task"]
            /\ UNCHANGED resp
       ELSE /\ pc' = [pc EXCEPT ![p] = "done"]
            /\ resp' = [resp EXCEPT ![p] = Resp500Unhandled]
            /\ UNCHANGED <<task, cfg>>
    /\ UNCHANGED <<newest, now, remote, local_file, config, last_loaded, phase, req,
                   json_content, sub, attempts, age, held, failed>>

(* Variants: a failed submission is tried again; the backend's error is    *)
(* put into the detail of the response.                                    *)
submit_error_pc_retry(p) == "create_task"
submit_error_response_passthrough(e) == [status |-> 500, detail |-> e]

(* except Exception of enqueue, lines 130-132: where control goes and the  *)
(* response raised for backend error e.                                    *)
submit_error_pc(p) == "done"
submit_error_response(e) == Resp500HTTPException

(* lines 122-123: client.create_task(...), which succeeds with a task name *)
(* or raises the backend's error.                                          *)
create_task(p) ==
    /\ pc[p] = "create_task"
    /\ \/ \E n \in TaskNames :
            /\ sub' = [sub EXCEPT ![p] = [called |-> @.called + 1, task |-> task[p],
                                          ok |-> TRUE, name |-> n]]
            /\ pc' = [pc EXCEPT ![p] = "h_respond"]
            /\ UNCHANGED resp
       \/ \E e \in BackendErrors :
            /\ sub' = [sub EXCEPT ![p] = [called |-> @.called + 1, task |-> task[p],
                                          ok |-> FALSE, error |-> e]]
            /\ pc' = [pc EXCEPT ![p] = submit_error_pc(p)]
            /\ resp' = [resp EXCEPT ![p] = IF submit_error_pc(p) = "done"
                                           THEN submit_error_response(e) ELSE @]
    /\ UNCHANGED <<newest, now, remote, local_file, config, last_loaded, phase, req,
                   json_content, services, task, cfg, attempts, age, held,
                   failed>>

(* lines 124-129: the success body, which reads config_manager._last_loaded *)
h_respond(p) ==
    /\ pc[p] = "h_respond"
    /\ resp' = [resp EXCEPT ![p] =
                  Resp200Enqueue(sub[p].name, req[p].service, last_loaded)]
    /\ pc' = [pc EXCEPT ![p] = "done"]
    /\ UNCHANGED <<newest, now, remote, local_file, config, last_loaded, phase, req,
                   json_content, services, task, cfg, sub, attempts, age,
                   held, failed>>

(* ---------------------- POST /config/refresh --------------------------- *)
(* refresh_config, line 137: config_manager._load_from_gcs()               *)
StartRefresh(p) ==
    /\ pc[p] = "idle"
    /\ pc' = [pc EXCEPT ![p] = "lg_fetch"]
    /\ phase' = [phase EXCEPT ![p] = "refresh"]
    /\ req' = [req EXCEPT ![p] = [kind |-> "refresh"]]
    /\ UNCHANGED <<newest, now, remote, local_file, config, last_loaded,
                   json_content, services, task, cfg, sub, resp, attempts,
                   age, held, failed>>

(* line 138: list(config_manager._config.keys()); the AttributeError on a  *)
(* value that is no dict is not caught.                                    *)
rc_respond(p) ==
    /\ pc[p] = "rc_respond"
    /\ resp' = [resp EXCEPT ![p] =
                  IF HasKeys(config) THEN Resp200Refresh(config) ELSE Resp500Unhandled]
    /\ pc' = [pc EXCEPT ![p] = "done"]
    /\ held' = [held EXCEPT ![p] = NoHeld]
    /\ failed' = [failed EXCEPT ![p] = "none"]
    /\ UNCHANGED <<newest, now, remote, local_file, config, last_loaded, phase, req,
                   json_content, services, task, cfg, sub, attempts, age>>

(* The response is sent and the thread takes the next request.             *)
Finish(p) ==
    /\ pc[p] = "done"
    /\ pc' = [pc EXCEPT ![p] = "idle"]
    /\ phase' = [phase EXCEPT ![p] = "none"]
    /\ req' = [req EXCEPT ![p] = NoReq]
    /\ task' = [task EXCEPT ![p] = NoTask]
    /\ cfg' = [cfg EXCEPT ![p] = NoCfg]
    /\ sub' = [sub EXCEPT ![p] = NoSub]
    /\ resp' = [resp EXCEPT ![p] = NoResp]
    /\ attempts' = [attempts EXCEPT ![p] = NoAttempts]
    /\ UNCHANGED <<newest, now, remote, local_file, config, last_loaded,
                   json_content, services, age, held, failed>>

(* ---------------------- specifications --------------------------------- *)
ThreadStep(p) ==
    \/ gs_check(p)
    \/ lg_fetch(p)
    \/ lg_assign(p)
    \/ lg_stamp(p)
    \/ lg_print(p)
    \/ lg_except(p)
    \/ fb_load(p)
    \/ fb_stamp(p)
    \/ gs_return(p)
    \/ v_in(p)
    \/ h_lookup(p)
    \/ create_task(p)
    \/ h_respond(p)
    \/ rc_respond(p)
    \/ Finish(p)

(* Spec: the request threads run concurrently.                             *)
Next ==
    \/ \E t \in ConcInstants : Advance(t)
    \/ \E r \in ConcRemote : RemoteChange(r)
    \/ \E p \in Threads : \E r \in CoreRequests : StartEnqueue(p, r)
    \/ \E p \in Threads : StartRefresh(p)
    \/ \E p \in Threads : ThreadStep(p)

Spec == Init /\ [][Next]_vars

(* SpecSeq: one request at a time, every state of the two sources.         *)
InitSeq ==
    /\ now = StartNow
    /\ config = PyDict(EmptyDict)
    /\ last_loaded = datetime_min
    /\ pc = [p \in Threads |-> "idle"]
    /\ phase = [p \in Threads |-> "none"]
    /\ req = [p \in Threads |-> NoReq]
    /\ json_content = [p \in Threads |-> NoText]
    /\ services = [p \in Threads |-> NoValue]
    /\ task = [p \in Threads |-> NoTask]
    /\ sub = [p \in Threads |-> NoSub]
    /\ resp = [p \in Threads |-> NoResp]
    /\ cfg = [p \in Threads |-> NoCfg]
    /\ attempts = [p \in Threads |-> NoAttempts]
    /\ age = [p \in Threads |-> NoAge]
    /\ held = [p \in Threads |-> NoHeld]
    /\ newest = NoText
    /\ failed = [p \in Threads |-> "none"]
    /\ remote \in RemoteStates
    /\ local_file \in LocalStates

NextSeq ==
    \/ \E t \in Instants : Advance(t)
    \/ \E r \in RemoteStates : RemoteChange(r)
    \/ \E r \in CoreRequests : StartEnqueue(1, r)
    \/ StartRefresh(1)
    \/ ThreadStep(1)

SpecSeq == InitSeq /\ [][NextSeq]_vars

(* SpecReq: one request at a time, every shape of the request.             *)
NextReq ==
    \/ \E t \in ConcInstants : Advance(t)
    \/ \E r \in ConcRemote : RemoteChange(r)
    \/ \E r \in Requests : StartEnqueue(1, r)
    \/ StartRefresh(1)
    \/ ThreadStep(1)

SpecReq == Init /\ [][NextReq]_vars

(* SpecLive: SpecSeq with a request that has started running to its        *)
(* response: the handlers are straight-line code with no wait and no loop, *)
(* so a started thread is never held back for ever.                        *)
SpecLive == InitSeq /\ [][NextSeq]_vars /\ WF_vars(ThreadStep(1))

TypeOK ==
    /\ now >= StartNow
    /\ last_loaded <= now
    /\ \A p \in Threads : sub[p].called <= 1

(* ---------------------- shared notions of the claims ------------------- *)
(* name resolves in value v: v is a routing table with an entry for name.  *)
Resolves(v, name) == HasKeys(v) /\ name \in Keys(v)
ServiceNames == {"brain", "worker", "ghost"}
(* The load thread p was running has returned to its caller.               *)
LoadReturned(p) == pc[p] \in {"gs_return", "rc_respond"} /\ failed[p] # "none"
(* That load entered the except branch of _load_from_gcs.                  *)
LoadFailed(p) == failed[p] \in {"fetch", "decode", "keys"}
(* The local snapshot can be read and parsed.                              *)
LocalUsable == local_file # Unreachable /\ json_loads(local_file).ok

(* C1: a failed remote refresh that began on a non-empty table leaves the  *)
(* table as it was: every name that resolved before the refresh resolves   *)
(* to the same entry once the refresh has returned.                        *)
C1_FailedRefreshKeepsTable ==
    \A p \in Threads :
        (LoadReturned(p) /\ LoadFailed(p) /\ Truthy(held[p].config)) =>
            \A n \in ServiceNames :
                Resolves(held[p].config, n) =>
                    /\ Resolves(config, n)
                    /\ config.d[n] = held[p].config.d[n]

(* C2: a remote refresh that fails on an empty table while the local       *)
(* snapshot is usable ends with the snapshot as the held table and with    *)
(* last_loaded set.                                                        *)
C2_FallbackAdopted ==
    \A p \in Threads :
        (LoadReturned(p) /\ LoadFailed(p) /\ ~Truthy(held[p].config) /\ LocalUsable) =>
            /\ config = json_loads(local_file).val
            /\ last_loaded # datetime_min
            /\ last_loaded <= now

(* C3: when the remote load and the fallback both fail on the cold, empty  *)
(* table, the table stays empty and last_loaded unset, so no name resolves *)
(* and the next get_services call is due to load again.                    *)
C3_BothFailStaysCold ==
    \A p \in Threads :
        (LoadReturned(p) /\ LoadFailed(p) /\ held[p] = NoHeld /\ ~LocalUsable) =>
            /\ config = PyDict(EmptyDict)
            /\ last_loaded = datetime_min
            /\ \A n \in ServiceNames : ~Resolves(config, n)
            /\ Expired(now, last_loaded)

(* C4: get_services raises nothing, whatever the fetch, the parse and the  *)
(* fallback do, and the value it returns is the table held.                *)
C4_GetServicesNeverFails ==
    \A p \in Threads :
        /\ pc[p] # "gs_raised"
        /\ pc[p] \in {"v_in", "h_lookup"} => services[p] = config

C4_Witness ==
    \E p \in Threads :
        /\ pc[p] = "v_in"
        /\ attempts[p].validate = 1
        /\ ~LocalUsable
        /\ services[p] = PyDict(EmptyDict)
        /\ last_loaded = datetime_min

(* C5: a get_services call makes a remote refresh attempt exactly when     *)
(* now - last_loaded exceeded 5 minutes at its check, and then exactly one *)
(* before it returns.                                                      *)
C5_RefreshIffExpired ==
    \A p \in Threads :
        (pc[p] = "gs_return" /\ phase[p] \in {"validate", "handle"}) =>
            attempts[p][phase[p]] = IF age[p] > 5 * 60 THEN 1 ELSE 0

C5_Witness ==
    \E p \in Threads :
        /\ pc[p] = "gs_return"
        /\ phase[p] = "validate"
        /\ age[p] = (5 * 60) + 1
        /\ attempts[p].validate = 1
        /\ Resolves(held[p].config, "brain")

(* C6: the table and the timestamp are replaced as one unit: no thread     *)
(* reads a field of the cache while another thread has replaced the table  *)
(* and not yet the timestamp.                                              *)
MidSwap(p) == pc[p] \in {"lg_stamp", "fb_stamp"}
Reading(q) == pc[q] \in {"gs_check", "gs_return", "h_respond", "rc_respond"}
C6_AtomicSwap ==
    \A p, q \in Threads : (p # q /\ MidSwap(p)) => ~Reading(q)

(* C7: a request whose service name is absent from the routing table the   *)
(* validator obtained ends with a 422 response and without a create_task   *)
(* call.                                                                   *)
C7_UnknownServiceRejected ==
    [][\A p \in Threads :
         (/\ pc[p] = "v_in"
          /\ pc'[p] # "v_in"
          /\ ~Resolves(services[p], req[p].service)) =>
             /\ pc'[p] = "done"
             /\ resp'[p].status = 422
             /\ sub'[p].called = 0]_vars

(* C8: a request makes at most one create_task call, and a request that    *)
(* made one has exactly one response: 200 when the call succeeded, 500     *)
(* when it failed.                                                         *)
C8_AtMostOneSubmission ==
    \A p \in Threads :
        /\ sub[p].called <= 1
        /\ resp[p] # NoResp => pc[p] = "done"
        /\ (pc[p] = "done" /\ sub[p].called = 1) =>
               resp[p].status = IF sub[p].ok THEN 200 ELSE 500

C8_Witness ==
    \E p \in Threads :
        /\ pc[p] = "done"
        /\ sub[p].called = 1
        /\ ~sub[p].ok
        /\ sub[p].error = "DEADLINE_EXCEEDED"
        /\ resp[p].status = 500

DigitVal(ch) == CHOOSE i \in 0..9 : DigitChar[i + 1] = ch
RECURSIVE DecVal(_)
DecVal(digits) ==
    IF Len(digits) = 0 THEN 0
    ELSE (10 * DecVal(SubSeq(digits, 1, Len(digits) - 1))) + DigitVal(digits[Len(digits)])
DeadlineSeconds(str) ==
    IF Len(str) >= 2 /\ str[Len(str)] = "s"
                     /\ \A i \in 1..(Len(str) - 1) : \E k \in 1..10 : DigitChar[k] = str[i]
    THEN DecVal(SubSeq(str, 1, Len(str) - 1))
    ELSE -1

(* C10: the dispatch deadline of the submitted task is the request's       *)
(* deadline_s when one in [1,3600] is supplied, and the deadline_s of the  *)
(* resolved entry when the request has none.                               *)
C10_DispatchDeadline ==
    \A p \in Threads :
        sub[p].called >= 1 =>
            LET d == DeadlineSeconds(sub[p].task.dispatch_deadline)
            IN  /\ \A x \in req[p].deadline_s : (x >= 1 /\ x <= 3600) => d = x
                /\ (req[p].deadline_s = None /\ "deadline_s" \in DOMAIN cfg[p]) =>
                       d = cfg[p].deadline_s

C10_Witness ==
    \E p \in Threads :
        /\ sub[p].called = 1
        /\ req[p].deadline_s = {3600}
        /\ "deadline_s" \in DOMAIN cfg[p]
        /\ cfg[p].deadline_s = 600
        /\ sub[p].task.dispatch_deadline = <<"3", "6", "0", "0", "s">>

(* C11, as claimed: the X-Idempotency-Key header of the submitted task is  *)
(* the request's idempotency_key whenever the request supplies one, of any *)
(* string value, and a generated key when it supplies none.                *)
C11_SuppliedKeyVerbatim ==
    \A p \in Threads :
        sub[p].called >= 1 =>
            /\ \A k \in req[p].idempotency_key : sub[p].task.x_idempotency_key = k
            /\ req[p].idempotency_key = None =>
                   sub[p].task.x_idempotency_key \in UUIDs

(* C12, as claimed: POST /config/refresh makes one remote refresh attempt  *)
(* and answers 200 with ok and exactly the names of the table held after   *)
(* the attempt, whether the attempt succeeded or failed.                   *)
C12_RefreshAnswersHeldNames ==
    \A p \in Threads :
        (pc[p] = "done" /\ phase[p] = "refresh") =>
            /\ attempts[p].refresh = 1
            /\ resp[p].status = 200
            /\ resp[p].ok
            /\ resp[p].services = Keys(config)

(* C13, as claimed: the 200 body of a successful enqueue holds ok, the     *)
(* backend's task identifier, the service name, the queue used, the        *)
(* effective deadline_s and the idempotency key attached.                  *)
C13_BodyEchoesQueueDeadlineKey ==
    \A p \in Threads :
        (pc[p] = "done" /\ sub[p].called = 1 /\ sub[p].ok) =>
            /\ resp[p].status = 200
            /\ resp[p].ok
            /\ resp[p].task = sub[p].name
            /\ resp[p].service = req[p].service
            /\ {"queue", "deadline_s", "idempotency_key"} \subseteq DOMAIN resp[p]
            /\ resp[p].queue = cfg[p].queue
            /\ resp[p].deadline_s = effective_deadline(req[p], cfg[p])
            /\ resp[p].idempotency_key = sub[p].task.x_idempotency_key

(* C13, amended: the 200 body of a successful enqueue holds ok, the        *)
(* backend's task identifier, the service name and from_config_ver, and    *)
(* nothing else: no queue, no deadline_s, no idempotency key.              *)
C13_BodyOfSuccess ==
    \A p \in Threads :
        (pc[p] = "done" /\ sub[p].called = 1 /\ sub[p].ok) =>
            /\ resp[p].status = 200
            /\ DOMAIN resp[p] = {"status", "ok", "task", "service", "from_config_ver"}
            /\ resp[p].ok
            /\ resp[p].task = sub[p].name
            /\ resp[p].service = req[p].service

C13_Witness ==
    \E p \in Threads :
        /\ pc[p] = "done"
        /\ sub[p].called = 1
        /\ sub[p].ok
        /\ req[p].idempotency_key = {"k1"}
        /\ req[p].deadline_s = {3600}
        /\ resp[p].status = 200
        /\ resp[p].task \in TaskNames

(* The remote documents whose load completes: JSON objects.                *)
TableDocs == {D \in RemoteStates : json_loads(D).ok /\ HasKeys(json_loads(D).val)}

(* C14: a get_services call that finds the cache expired while the remote  *)
(* holds a loadable document D leads to the held table being D's table,    *)
(* unless the remote stops holding D: once the remote fetch keeps          *)
(* succeeding, the table is eventually the remote document, from the       *)
(* cold, the fallback-loaded and the warm stale cache alike.               *)
C14_EventuallyFresh ==
    \A D \in TableDocs :
        (\E p \in Threads : /\ pc[p] = "gs_check"
                            /\ now - last_loaded > 5 * 60
                            /\ remote = D)
            ~> (remote # D \/ config = json_loads(D).val)

C14_Witness ==
    \E p \in Threads :
        /\ pc[p] = "gs_return"
        /\ age[p] > 5 * 60
        /\ held[p].config = json_loads(DocLocal).val
        /\ remote = DocA
        /\ config = json_loads(DocA).val
        /\ last_loaded = now

(* C15, as claimed: a remote refresh that fails on a non-empty table       *)
(* leaves last_loaded as it was, so a table that was stale stays due for   *)
(* a refresh at the next get_services call.                                *)
C15_FailedRefreshKeepsStamp ==
    \A p \in Threads :
        (LoadReturned(p) /\ LoadFailed(p) /\ Truthy(held[p].config)) =>
            /\ last_loaded = held[p].last_loaded
            /\ Expired(now, held[p].last_loaded) => Expired(now, last_loaded)

(* The tables that are one whole document: the initial empty table and the *)
(* value of every document the remote or the local source can hold.       *)
WholeDocuments ==
    {PyDict(EmptyDict)} \cup
    {json_loads(D).val : D \in {T \in RemoteStates \cup LocalStates :
                                    T # Unreachable /\ json_loads(T).ok}}

(* C16: under any interleaving the table held, and the table a reader has  *)
(* obtained from get_services, is one whole document: the initial empty    *)
(* table, a complete remote document or the complete local snapshot.      *)
C16_ReaderSeesWholeDocument ==
    /\ config \in WholeDocuments
    /\ \A p \in Threads :
           pc[p] \in {"v_in", "h_lookup"} => services[p] \in WholeDocuments

C16_Witness ==
    \E p \in Threads : \E q \in Threads :
        /\ pc[p] = "h_lookup"
        /\ services[p] = json_loads(DocA).val
        /\ pc[q] = "lg_stamp"
        /\ held[q].config = json_loads(DocA).val
        /\ config = json_loads(DocB).val

(* C17, as claimed: under any interleaving with refreshes, the service     *)
(* name the validator accepted is found by the handler's own lookup, and   *)
(* no enqueue request ends in the unhandled failure of a missing key.      *)
C17_AcceptedNameStillResolves ==
    \A p \in Threads :
        /\ pc[p] = "h_lookup" => Resolves(services[p], req[p].service)
        /\ (pc[p] = "done" /\ phase[p] = "handle") => resp[p] # Resp500Unhandled

(* C18, as claimed: under any interleaving, the step that adopts the local *)
(* snapshot replaces an empty table only, never a table another refresh    *)
(* has loaded from the remote.                                             *)
C18_FallbackOnlyOntoEmpty ==
    [][\A p \in Threads :
          (pc[p] = "fb_load" /\ pc'[p] = "fb_stamp") => ~Truthy(config)]_vars

(* C19, as claimed: when the last of the refreshes running together        *)
(* assigns its document, the table held is the document downloaded most    *)
(* recently by any of them.                                                *)
C19_NewestFetchedWins ==
    [][\A p \in Threads :
          (pc[p] = "lg_assign" /\ pc'[p] = "lg_stamp" /\ ~Pending(p)) =>
              config' = json_loads(newest).val]_vars

(* C19, amended: the last writer wins. Each refresh that succeeds leaves   *)
(* the table equal to the document it downloaded itself, so the table      *)
(* held after all of them is the document of the refresh that assigned     *)
(* last, which can be older than the one downloaded most recently.         *)
C19_LastWriterWins ==
    [][\A p \in Threads :
          (pc[p] = "lg_assign" /\ pc'[p] = "lg_stamp") =>
              config' = json_loads(json_content[p]).val]_vars

C19_Witness ==
    \E p \in Threads : \E q \in Threads \ {p} :
        /\ pc[p] = "lg_stamp"
        /\ pc[q] \in {"lg_stamp", "lg_print"}
        /\ newest = DocB
        /\ config = json_loads(DocA).val

(* C20, as claimed: one enqueue request makes at most one remote refresh   *)
(* attempt, the validator's and the handler's get_services calls counted   *)
(* together.                                                               *)
C20_AtMostOneAttemptPerRequest ==
    \A p \in Threads :
        attempts[p].validate + attempts[p].handle <= 1

(* C20, amended: one enqueue request makes at most one remote refresh      *)
(* attempt in the validator's get_services call and at most one in the     *)
(* handler's, so at most two.                                              *)
C20_AtMostOneAttemptPerCall ==
    \A p \in Threads :
        /\ attempts[p].validate <= 1
        /\ attempts[p].handle <= 1

C20_Witness ==
    \E p \in Threads :
        /\ pc[p] = "done"
        /\ phase[p] = "handle"
        /\ attempts[p].validate = 1
        /\ attempts[p].handle = 1
        /\ remote = Unreachable
        /\ Resolves(config, "brain")
        /\ resp[p].status = 200
====
